---- MODULE Spec2Model ----
(***************************************************************************)
(* Model of the Telegram-to-Notion forwarder: the debounced message        *)
(* buffer (src/notion/core/buffer.py), the handler that feeds it           *)
(* (src/notion/bot/handler.py), the upload orchestration                   *)
(* (src/notion/core/uploader.py) and the Notion client                     *)
(* (src/notion/api/client.py).                                             *)
(*                                                                         *)
(* Scheduling is asyncio's: one event loop, a coroutine runs without       *)
(* interruption from one await to the next.  Every action below is one     *)
(* such run-to-next-await segment.  A remote call (Notion, Telegram) is an *)
(* await whose outcome, success or exception, is chosen by the             *)
(* environment.  The uploader calls create_page with keyword arguments and *)
(* calls get_page / update_page; client.py declares create_page without    *)
(* those keywords and does not declare the other two, so the model takes   *)
(* each of these calls as the remote request it stands for.                *)
(***************************************************************************)
EXTENDS Integers, Sequences, FiniteSets, TLC

\* ---- bounds of the model -------------------------------------------------
MaxMsgs == 3
NumUsers == 2
TimeStep == 15
MaxSizeMiB == 31
NumApiCalls == 2
MaxCount == 1

\* ---- program constants ---------------------------------------------------
BufferTimeout == 30
MaxRetries == 6
InitialDelay == 5

Users == 1..NumUsers
Msgs == 1..MaxMsgs
AgeCap == BufferTimeout + TimeStep

Min(a, b) == IF a <= b THEN a ELSE b

\* What a Telegram message carries: text (message.text or message.caption),
\* a downloadable file (document, photo, video, audio, voice), or both.
Kinds == {"text", "file"}
HasText(k) == k \in {"text", "both"}
HasFile(k) == k \in {"file", "both"}

VARIABLES
    buffers,    \* MessageBuffer.buffers: user_id -> entry (a dict: the domain is the set of keys)
    lock,       \* MessageBuffer.lock: the process that holds it, or NoProc
    waiters,    \* the lock's FIFO queue of waiting processes
    calls,      \* one record per handle_any_message / add_message call
    timers,     \* one record per _process_buffer task; task t is created by call t
    pages,      \* the destination: pages[m] is the sequence of blocks of the page call m
                \* created, kept while the page is some entry's page
    age,        \* per user: time since the first / the latest accepted unit
    hist,       \* per user, for the entry the user has now: what happened to it
    ev,         \* what the last step did: an add_message call ended, or a task deleted an entry
    up          \* one upload_message call: its position and the requests it made;
                \* up.request: one request of the client

bufferVars == <<buffers, lock, waiters, calls, timers, pages, age, hist, ev>>
vars == <<buffers, lock, waiters, calls, timers, pages, age, hist, ev, up>>

\* ---- values --------------------------------------------------------------
\* A page id is a string with dashes (a UUID); None is the empty string.
\* PageIdOf(m) is the id create_page returns to call m.
None == <<>>
PageIdOf(m) == <<"p", "-", ToString(m)>>

\* page_id.replace('-', '')
StripDashes(id) == SelectSeq(id, LAMBDA c : c # "-")

\* f"https://www.notion.so/{page_id.replace('-', '')}"
PageUrl(id) == <<"https://www.notion.so/">> \o StripDashes(id)

NoProc == [k |-> "none", id |-> 0]
MsgProc(m) == [k |-> "msg", id |-> m]
TimerProc(t) == [k |-> "timer", id |-> t]

\* The value the defaultdict builds for a missing key (the fields the buffer
\* branches on or reports; a task and a message are named by the id of the
\* call they belong to, 0 for None).
DefaultEntry ==
    [page_id |-> None, task |-> 0, has_error |-> FALSE,
     file_count |-> 0, text_count |-> 0, last_message |-> 0]

\* self.buffers[user_id]: reading a missing key inserts the default entry.
Touch(b, u) ==
    [v \in (DOMAIN b) \cup {u} |-> IF v \in DOMAIN b THEN b[v] ELSE DefaultEntry]

\* every entry is deleted
DeleteAll(b, u) == <<>>

\* the entry is kept
DeleteNothing(b, u) == b

\* del self.buffers[user_id]
Delete(b, u) == [v \in (DOMAIN b) \ {u} |-> b[v]]

NewCall ==
    [user |-> 0, kind |-> "text", pc |-> "new", mode |-> "none",
     lateFirst |-> FALSE, lateLast |-> FALSE]

\* A call that has left handle_any_message
DoneCall(u) == [NewCall EXCEPT !.user = u, !.pc = "done"]

NoTimer == [pc |-> "none", rem |-> 0]

NoHist == [urls |-> 0, failed |-> FALSE, lastFailed |-> FALSE]

NoEv ==
    [what |-> "none", id |-> 0, user |-> 0, mode |-> "none", outcome |-> "none",
     res |-> "none", url |-> None, target |-> None, created |-> None,
     before |-> DefaultEntry, lateFirst |-> FALSE, lateLast |-> FALSE,
     sent |-> "none", full |-> FALSE, temp |-> "none", note |-> FALSE,
     lastFailed |-> FALSE, superseded |-> "none",
     reported |-> [files |-> 0, texts |-> 0]]

\* ---- the lock ------------------------------------------------------------
\* asyncio.Lock.release(): the lock passes to the first waiter, in FIFO order
HandoffLast(w) ==
    IF w = <<>> THEN [holder |-> NoProc, rest |-> <<>>]
    ELSE [holder |-> w[Len(w)], rest |-> SubSeq(w, 1, Len(w) - 1)]

Handoff(w) ==
    IF w = <<>> THEN [holder |-> NoProc, rest |-> <<>>]
    ELSE [holder |-> Head(w), rest |-> Tail(w)]

\* a cancelled task keeps its place in the queue
UnqueueNothing(w, p) == w

\* task.cancel() of a task blocked in lock.acquire() takes it out of the queue
Unqueue(w, p) == SelectSeq(w, LAMBDA q : q # p)

\* What upload_message is called with: the mode, the client's parent page
\* id, whether the message has text, and its file: none, a local file (is
\* it there, its content type, its extension) or an external URL
NoMessage ==
    [append_only |-> FALSE, parent |-> None, content |-> FALSE, file |-> "none",
     exists |-> FALSE, content_type |-> "none", extension |-> "none"]

\* no exception: status_code 0 stands for None
NoError == [type |-> "none", message |-> "none", status_code |-> 0, response_body |-> FALSE]

\* no request is being made
NoRequest == [pc |-> "none", caller |-> "none", status |-> 0, raised |-> NoError]

\* the number properties of a page ('文件数量', '链接数量'), and no
\* append-mode calls working on them
NoCounts == [files |-> 0, links |-> 0]
NoProps == [page |-> NoCounts, initial |-> NoCounts, calls |-> <<>>]

\* no upload_message call is being followed
NoUpload ==
    [pc |-> "none", request |-> NoRequest, props |-> NoProps, msg |-> NoMessage, net |-> 0, page_created |-> FALSE, texts |-> 0,
     external |-> FALSE, size |-> [some |-> FALSE, val |-> 0],
     mode |-> "none", number_of_parts |-> 0, parts |-> <<>>, ranges |-> <<>>,
     creates |-> 0,
     completes |-> 0, polls |-> 0, last |-> "none", attempt |-> 0, delay |-> 0,
     slept |-> 0,
     blocks |-> 0, error |-> "none", log |-> <<>>]

\* ---- Init ----------------------------------------------------------------
InitBuffer ==
    /\ buffers = <<>>
    /\ lock = NoProc
    /\ waiters = <<>>
    /\ calls = [m \in Msgs |-> NewCall]
    /\ timers = [m \in Msgs |-> NoTimer]
    /\ pages = [m \in Msgs |-> <<>>]
    /\ age = [u \in Users |-> [first |-> -1, last |-> -1]]
    /\ hist = [u \in Users |-> NoHist]
    /\ ev = NoEv

Init ==
    /\ InitBuffer
    /\ up = NoUpload

\* ---- add_message ---------------------------------------------------------
\* `if not buffer['page_id']`: the unit is the first one of a page
IsFirstByLast(entry) == entry.last_message = 0

\* every unit is taken as the first one of a page
IsFirstAlways(entry) == TRUE

IsFirst(entry) == entry.page_id = None

\* `new_uploader.client.parent_page_id = buffer['page_id']`: the page an
\* append-mode upload_message writes to
AppendTargetNone(entry) == None

AppendTarget(entry) == entry.page_id

\* some call of user u is waiting for the lock or inside add_message
Pending(u) ==
    \E j \in Msgs : calls[j].user = u /\ calls[j].pc \in {"wait", "body"}

\* Users are interchangeable: the next new user is the lowest unused id
KnownUsers == {calls[j].user : j \in {i \in Msgs : calls[i].pc # "new"}}
NextUsers == {u \in Users : \A v \in Users : v < u => v \in KnownUsers}

\* The record of a call at the moment handle_any_message calls add_message
Arriving(u, k) ==
    [NewCall EXCEPT !.user = u, !.kind = k, !.pc = "wait",
                    !.lateFirst = (age[u].first > BufferTimeout),
                    !.lateLast = (age[u].last > BufferTimeout /\ ~Pending(u))]

\* every caller takes the lock at once
AcquiresAlways == TRUE

\* `async with self.lock`: the caller takes the lock at once only when nobody
\* holds it and nobody waits for it; otherwise it queues
Acquires == lock = NoProc /\ waiters = <<>>

\* add_message from the acquisition of the lock to its first await:
\* `buffer = self.buffers[user_id]` and the branch on page_id
EnterCall(m, c) ==
    LET u == c.user
        b == Touch(buffers, u)
    IN  /\ buffers' = b
        /\ calls' = [calls EXCEPT ![m] =
               [c EXCEPT !.pc = "body",
                         !.mode = IF IsFirst(b[u]) THEN "create" ELSE "append"]]

\* handle_any_message reaches `await message_buffer.add_message(...)`
Submit(u, k) ==
    \E m \in Msgs :
        /\ calls[m].pc = "new"
        /\ \A j \in Msgs : j < m => calls[j].pc # "new"
        /\ u \in NextUsers
        /\ IF Acquires
           THEN /\ lock' = MsgProc(m)
                /\ EnterCall(m, Arriving(u, k))
                /\ UNCHANGED waiters
           ELSE /\ waiters' = Append(waiters, MsgProc(m))
                /\ calls' = [calls EXCEPT ![m] = Arriving(u, k)]
                /\ UNCHANGED <<lock, buffers>>
        /\ ev' = NoEv
        /\ UNCHANGED <<timers, pages, age, hist, up>>

\* a waiting add_message call is handed the lock and starts its body
Resume(m) ==
    /\ lock = MsgProc(m)
    /\ calls[m].pc = "wait"
    /\ EnterCall(m, calls[m])
    /\ ev' = NoEv
    /\ UNCHANGED <<lock, waiters, timers, pages, age, hist, up>>

\* How the awaits of one add_message body can end: all succeed, or one of
\* them raises: the Telegram download (from_telegram_message), the page step
\* (create_page, or get_page / update_page when appending), append_text, or
\* _handle_file_upload
Outcomes(k) ==
    {"ok", "page_fail"}
        \cup (IF HasText(k) THEN {"text_fail"} ELSE {})
        \cup (IF HasFile(k) THEN {"download_fail", "file_fail"} ELSE {})

\* upload_message got as far as a successful create_page
PageCreated(c, o) == c.mode = "create" /\ o \notin {"download_fail", "page_fail"}

\* the blocks upload_message appended before it returned or raised
Blocks(m, k, o) ==
    (IF HasText(k) /\ o \in {"ok", "file_fail"} THEN << <<m, "text">> >> ELSE <<>>)
        \o (IF HasFile(k) /\ o = "ok" THEN << <<m, "file">> >> ELSE <<>>)

\* the destination after blocks bs were appended to the page with this id
WithBlocks(pg, id, bs) ==
    [n \in Msgs |-> IF PageIdOf(n) = id THEN pg[n] \o bs ELSE pg[n]]

\* A page no entry points at is never written again: the destination keeps
\* the blocks of the pages that are some entry's page.
Forget(pg, id) == [n \in Msgs |-> IF PageIdOf(n) = id THEN <<>> ELSE pg[n]]

\* the page upload_message works on: the new page, or the client's parent page
TargetOf(m, c, o) ==
    IF o = "download_fail" THEN None
    ELSE IF c.mode = "create"
         THEN (IF PageCreated(c, o) THEN PageIdOf(m) ELSE None)
         ELSE AppendTarget(buffers[c.user])

\* upload_message's effect on the destination
Uploaded(m, o) ==
    LET c == calls[m]
    IN  IF c.mode = "create" /\ o # "ok" THEN pages
        ELSE WithBlocks(pages, TargetOf(m, c, o), Blocks(m, c.kind, o))

\* task.cancel()
CancelNothing(t) == t

\* cancel() reaches a sleeping task only
CancelSleeping(t) ==
    IF t.pc = "sleep" THEN [pc |-> "cancelled", rem |-> 0] ELSE t

Cancel(t) ==
    IF t.pc \in {"sleep", "wait"} THEN [pc |-> "cancelled", rem |-> 0] ELSE t

\* asyncio.create_task(self._process_buffer(user_id)): the task sleeps
\* buffer_timeout seconds from now
NewTimerLong == [pc |-> "sleep", rem |-> 2 * BufferTimeout]

NewTimer == [pc |-> "sleep", rem |-> BufferTimeout]

\* every unit counts
CountAlways(present) == 1

\* `if notion_message.content: buffer['text_count'] += 1`, and the same for a file
Count(present) == IF present THEN 1 ELSE 0

\* The temporary file of the unit when add_message ends. from_telegram_message
\* downloads the file into a fresh mkdtemp directory and removes it only when
\* the download raised; add_message and upload_message never remove it.
TempFile(k, o) ==
    IF ~HasFile(k) THEN "none"
    ELSE IF o = "download_fail" THEN "absent"
    ELSE "left"

\* what the call returned or raised, as the last step's event
Returning(m, o, res) ==
    [NoEv EXCEPT !.what = "returned", !.id = m, !.user = calls[m].user,
                 !.mode = calls[m].mode, !.outcome = o, !.res = res,
                 !.url = IF res = "url" THEN PageUrl(TargetOf(m, calls[m], o)) ELSE None,
                 !.target = TargetOf(m, calls[m], o),
                 !.created = IF PageCreated(calls[m], o) THEN TargetOf(m, calls[m], o) ELSE None,
                 !.before = buffers[calls[m].user],
                 !.lateFirst = calls[m].lateFirst, !.lateLast = calls[m].lateLast,
                 !.temp = TempFile(calls[m].kind, o)]

\* upload_message returned in the first-unit path: lines 49-58
FinishCreate(m) ==
    LET u == calls[m].user
        k == calls[m].kind
    IN  /\ buffers' = [buffers EXCEPT ![u] =
               [@ EXCEPT !.page_id = TargetOf(m, calls[m], "ok"), !.task = m,
                         !.file_count = @ + Count(HasFile(k)),
                         !.text_count = @ + Count(HasText(k))]]
        /\ timers' = [timers EXCEPT ![m] = NewTimer]
        /\ calls' = [calls EXCEPT ![m] = [DoneCall(u) EXCEPT !.pc = "reply"]]
        /\ ev' = Returning(m, "ok", "url")
        /\ age' = [age EXCEPT ![u] = [first |-> 0, last |-> 0]]
        /\ hist' = [hist EXCEPT ![u].urls = @ + 1, ![u].lastFailed = FALSE]
        /\ lock' = Handoff(waiters).holder
        /\ waiters' = Handoff(waiters).rest

\* upload_message returned in the append path: lines 82-114
FinishAppend(m) ==
    LET u == calls[m].user
        k == calls[m].kind
        old == buffers[u].task
        w == IF old # 0 /\ Cancel(timers[old]) # timers[old]
             THEN Unqueue(waiters, TimerProc(old)) ELSE waiters
    IN  /\ buffers' = [buffers EXCEPT ![u] =
               [@ EXCEPT !.file_count = @ + Count(HasFile(k)),
                         !.text_count = @ + Count(HasText(k)),
                         !.has_error = FALSE, !.last_message = m, !.task = m]]
        /\ timers' = [t \in Msgs |->
               IF t = m THEN NewTimer
               ELSE IF t = old THEN Cancel(timers[t]) ELSE timers[t]]
        /\ calls' = [calls EXCEPT ![m] = DoneCall(u)]
        /\ ev' = [Returning(m, "ok", "none") EXCEPT
                      !.superseded = IF old # 0 THEN timers[old].pc ELSE "none"]
        /\ age' = [age EXCEPT ![u].last = 0]
        /\ lock' = Handoff(w).holder
        /\ waiters' = Handoff(w).rest
        /\ hist' = [hist EXCEPT ![u].lastFailed = FALSE]

FailCallClear(m, o) ==
    LET u == calls[m].user
    IN  /\ buffers' = [buffers EXCEPT ![u] = [@ EXCEPT !.has_error = TRUE, !.page_id = None]]
        /\ calls' = [calls EXCEPT ![m] = DoneCall(u)]
        /\ ev' = [NoEv EXCEPT !.what = "returned", !.id = m, !.user = u,
                              !.mode = calls[m].mode, !.outcome = o, !.res = "error",
                              !.before = buffers[u]]
        /\ hist' = hist
        /\ lock' = Handoff(waiters).holder
        /\ waiters' = Handoff(waiters).rest
        /\ UNCHANGED <<timers, age>>

\* an await of the body raised.  from_telegram_message is outside the try
\* blocks; everything else is inside one: `buffer['has_error'] = True; raise`
FailCall(m, o) ==
    LET u == calls[m].user
    IN  /\ buffers' = IF o = "download_fail" THEN buffers
                      ELSE [buffers EXCEPT ![u] = [@ EXCEPT !.has_error = TRUE]]
        /\ calls' = [calls EXCEPT ![m] = DoneCall(u)]
        /\ ev' = Returning(m, o, "error")
        /\ hist' = [hist EXCEPT ![u].failed = (@ \/ calls[m].mode = "append"),
                                ![u].lastFailed = TRUE]
        /\ lock' = Handoff(waiters).holder
        /\ waiters' = Handoff(waiters).rest
        /\ UNCHANGED <<timers, age>>

\* The body of add_message runs to its end under the lock: the download,
\* upload_message, the bookkeeping, the release of the lock.
Complete(m, o) ==
    /\ lock = MsgProc(m)
    /\ calls[m].pc = "body"
    /\ o \in Outcomes(calls[m].kind)
    /\ pages' = Uploaded(m, o)
    /\ UNCHANGED up
    /\ IF o = "ok"
       THEN IF calls[m].mode = "create" THEN FinishCreate(m) ELSE FinishAppend(m)
       ELSE FailCall(m, o)

\* handle_any_message after add_message returned a URL: reply_text, then
\* first_reply_sent and first_bot_message are stored in
\* message_buffer.buffers[user_id] without the lock; the subscript inserts
\* an entry when the key is missing.  When reply_text raises nothing is stored.
HandlerReply(m, ok) ==
    /\ calls[m].pc = "reply"
    /\ calls' = [calls EXCEPT ![m] = DoneCall(calls[m].user)]
    /\ buffers' = IF ok THEN Touch(buffers, calls[m].user) ELSE buffers
    /\ ev' = NoEv
    /\ UNCHANGED <<lock, waiters, timers, pages, age, hist, up>>

\* ---- _process_buffer -----------------------------------------------------
\* `if buffer['page_id'] and buffer['last_message']`
HasSummary(e) == e.page_id # None /\ e.last_message # 0

\* `"（部分文件上传失败）" if buffer.get('has_error', False) else ""`: the
\* summary carries the failure note.  The lock is held from this read to the
\* deletion of the entry and nothing writes has_error without it.
ErrorMsg(e) == e.has_error

\* f"共上传了 {buffer['file_count']} 个文件，{buffer['text_count']} 条文本消息"
SummaryCounts(e) == [files |-> e.file_count, texts |-> e.text_count]

\* `del self.buffers[user_id]` and the end of `async with self.lock`
CloseEntry(t, b, sent, held) ==
    LET u == calls[t].user
    IN  /\ buffers' = Delete(b, u)
        /\ timers' = [timers EXCEPT ![t] = [pc |-> "done", rem |-> 0]]
        /\ pages' = Forget(pages, b[u].page_id)
        /\ ev' = [NoEv EXCEPT !.what = "closed", !.id = t, !.user = u, !.before = b[u],
                              !.sent = sent, !.full = (age[u].last >= BufferTimeout),
                              !.note = (sent # "skipped" /\ ErrorMsg(b[u])),
                              !.lastFailed = hist[u].lastFailed,
                              !.reported = IF sent = "skipped" THEN NoEv.reported
                                           ELSE SummaryCounts(b[u])]
        /\ age' = [age EXCEPT ![u].first = -1]
        /\ hist' = [hist EXCEPT ![u] = NoHist]
        /\ IF held
           THEN lock' = Handoff(waiters).holder /\ waiters' = Handoff(waiters).rest
           ELSE UNCHANGED <<lock, waiters>>

\* _process_buffer from the acquisition of the lock: reads the entry and
\* either awaits reply_text or deletes the entry at once
TimerBody(t, held) ==
    LET u == calls[t].user
        b == Touch(buffers, u)
    IN  IF HasSummary(b[u])
        THEN /\ buffers' = b
             /\ timers' = [timers EXCEPT ![t] = [pc |-> "reply", rem |-> 0]]
             /\ lock' = TimerProc(t)
             /\ ev' = NoEv
             /\ UNCHANGED <<waiters, pages, age, hist>>
        ELSE CloseEntry(t, b, "skipped", held)

\* asyncio.sleep(self.buffer_timeout) is over: `async with self.lock`
TimerWake(t) ==
    /\ timers[t].pc = "sleep"
    /\ timers[t].rem = 0
    /\ IF Acquires
       THEN TimerBody(t, FALSE)
       ELSE /\ timers' = [timers EXCEPT ![t] = [pc |-> "wait", rem |-> 0]]
            /\ waiters' = Append(waiters, TimerProc(t))
            /\ ev' = NoEv
            /\ UNCHANGED <<buffers, lock, pages, age, hist>>
    /\ UNCHANGED <<calls, up>>

\* a waiting task is handed the lock
TimerResume(t) ==
    /\ lock = TimerProc(t)
    /\ timers[t].pc = "wait"
    /\ TimerBody(t, TRUE)
    /\ UNCHANGED <<calls, up>>

\* last_message.reply_text returned or raised (the exception is logged);
\* then `del self.buffers[user_id]` and the lock is released
TimerReply(t, ok) ==
    /\ lock = TimerProc(t)
    /\ timers[t].pc = "reply"
    /\ CloseEntry(t, buffers, IF ok THEN "sent" ELSE "failed", TRUE)
    /\ UNCHANGED <<calls, up>>

\* ---- time ----------------------------------------------------------------
Sleeping == {t \in Msgs : timers[t].pc = "sleep"}

\* Time passes up to the next wake-up, at most TimeStep seconds at once
Elapse ==
    IF Sleeping = {} THEN TimeStep
    ELSE Min(TimeStep, CHOOSE r \in {timers[t].rem : t \in Sleeping} :
                           \A t \in Sleeping : r <= timers[t].rem)

Older(a, d) == IF a < 0 THEN a ELSE Min(AgeCap, a + d)

\* a task whose sleep is over runs before more time passes
Tick ==
    /\ \A t \in Sleeping : timers[t].rem > 0
    /\ timers' = [t \in Msgs |->
           IF t \in Sleeping THEN [timers[t] EXCEPT !.rem = @ - Elapse] ELSE timers[t]]
    /\ age' = [u \in Users |->
           [first |-> Older(age[u].first, Elapse), last |-> Older(age[u].last, Elapse)]]
    /\ (timers' # timers \/ age' # age)
    /\ ev' = NoEv
    /\ UNCHANGED <<buffers, lock, waiters, calls, pages, hist, up>>

AllOutcomes == UNION {Outcomes(k) : k \in Kinds}

Next ==
    \/ \E u \in Users, k \in Kinds : Submit(u, k)
    \/ \E m \in Msgs : Resume(m)
    \/ \E m \in Msgs, o \in AllOutcomes : Complete(m, o)
    \/ \E m \in Msgs, ok \in BOOLEAN : HandlerReply(m, ok)
    \/ \E t \in Msgs : TimerWake(t)
    \/ \E t \in Msgs : TimerResume(t)
    \/ \E t \in Msgs, ok \in BOOLEAN : TimerReply(t, ok)
    \/ Tick

Spec == Init /\ [][Next]_vars

\* The event loop runs every task that is ready, every remote call and every
\* sleep ends, and time passes; nothing obliges a submitter to send a unit.
Fairness ==
    /\ WF_vars(\E m \in Msgs : Resume(m))
    /\ WF_vars(\E m \in Msgs, o \in AllOutcomes : Complete(m, o))
    /\ WF_vars(\E m \in Msgs, ok \in BOOLEAN : HandlerReply(m, ok))
    /\ WF_vars(\E t \in Msgs : TimerWake(t))
    /\ WF_vars(\E t \in Msgs : TimerResume(t))
    /\ WF_vars(\E t \in Msgs, ok \in BOOLEAN : TimerReply(t, ok))
    /\ WF_vars(Tick)

SpecLive == Init /\ [][Next]_vars /\ Fairness

TypeOK ==
    /\ DOMAIN buffers \subseteq Users
    /\ lock \in {NoProc} \cup {MsgProc(m) : m \in Msgs} \cup {TimerProc(m) : m \in Msgs}
    /\ lock = NoProc => waiters = <<>>

\* ---- the file upload: uploader.py and client.py ---------------------------
\* Optional[int]: None, or an integer
NoSize == [some |-> FALSE, val |-> 0]
SizeOf(n) == [some |-> TRUE, val |-> n]

\* `if file_size and ...`: None and 0 are false
Truthy(fs) == fs.some /\ fs.val # 0

\* create_file_upload: `file_size > 20 * 1024 * 1024`
MultiPartThreshold == 20 * 1024 * 1024

\* create_file_upload: `part_size = 10 * 1024 * 1024`
PartSize == 10 * 1024 * 1024

\* number_of_parts = None
NoParts == 0

\* create_file_upload: the mode it puts in the payload and returns
ModeFromThreshold(fs) ==
    IF Truthy(fs) /\ fs.val >= MultiPartThreshold THEN "multi_part" ELSE "single_part"

Mode(fs) ==
    IF Truthy(fs) /\ fs.val > MultiPartThreshold THEN "multi_part" ELSE "single_part"

\* create_file_upload: `(file_size + part_size - 1) // part_size`, or None
NumberOfParts(fs) ==
    IF Mode(fs) = "multi_part" THEN (fs.val + PartSize - 1) \div PartSize ELSE NoParts

\* The inputs: a local file of a size around a whole number of MiB, or an
\* external URL, for which _handle_file_upload passes no size
Sizes == {k * 1024 * 1024 + d : k \in 1..MaxSizeMiB, d \in {-1, 0, 1}}

\* NotionUploader.supported_mime_types
SupportedMimeTypes ==
    {"image/jpeg", "image/png", "image/gif", "image/webp", "image/svg+xml",
     "video/mp4", "video/quicktime", "video/x-msvideo", "video/webm",
     "audio/mpeg", "audio/mp4", "audio/wav", "audio/ogg", "audio/webm",
     "application/pdf", "application/msword",
     "application/vnd.openxmlformats-officedocument.wordprocessingml.document",
     "application/vnd.ms-excel",
     "application/vnd.openxmlformats-officedocument.spreadsheetml.sheet",
     "application/vnd.ms-powerpoint",
     "application/vnd.openxmlformats-officedocument.presentationml.presentation",
     "text/plain", "text/csv", "text/html"}

\* The local files of the model: content types and extensions to try
ContentTypes == {"application/pdf", "application/x-msdownload", "text/markdown"}
Extensions == {"pdf", "md"}

\* the page id a caller has put in client.parent_page_id
GivenPage == <<"p", "-", "0">>

LocalFiles ==
    {[NoMessage EXCEPT !.file = "local", !.exists = FALSE,
                       !.content_type = t, !.extension = e] :
         t \in ContentTypes, e \in Extensions}
    \cup {[NoMessage EXCEPT !.file = "local", !.exists = TRUE,
                            !.content_type = t, !.extension = e] :
              t \in ContentTypes, e \in Extensions}

Files == {NoMessage, [NoMessage EXCEPT !.file = "external"]} \cup LocalFiles

\* the size on disk: a missing file and an external URL have none
SizesOf(f) ==
    IF f.file = "local" /\ f.exists THEN {SizeOf(n) : n \in Sizes \cup {0}} ELSE {NoSize}

StartUpload(append_only, parent, content, f, size) ==
    [NoUpload EXCEPT !.pc = "start",
                     !.msg = [f EXCEPT !.append_only = append_only, !.parent = parent,
                                       !.content = content],
                     !.external = (f.file = "external"),
                     !.size = size]

InitUpload ==
    /\ InitBuffer
    /\ \E append_only, content \in BOOLEAN, parent \in {None, GivenPage}, f \in Files :
           \E size \in SizesOf(f) :
               up = StartUpload(append_only, parent, content, f, size)

\* n requests are sent to the remote side, all of the operation the call now
\* awaits (u.pc); the log keeps the order in which operations were requested
Req(u, n) == [u EXCEPT !.net = @ + n, !.log = Append(@, u.pc)]

\* the failed request is sent again
Retried(u, kind) == Req(u, 1)

\* an exception leaves upload_message: the call ends with an error; part
\* transfers that are still running keep running
Failed(u, kind) == [u EXCEPT !.pc = "failed", !.error = kind]

\* upload_message up to its first await: create_page, or in append-only mode
\* the check of client.parent_page_id and then get_page
ParentMissingIgnored(u) == FALSE

ParentMissing(u) == u.msg.parent = None

UploadMessage ==
    /\ up.pc = "start"
    /\ up' = IF ~up.msg.append_only THEN Req([up EXCEPT !.pc = "create_page"], 1)
             ELSE IF ParentMissing(up) THEN Failed(up, "config")
             ELSE Req([up EXCEPT !.pc = "get_page"], 1)
    /\ UNCHANGED bufferVars

\* `if message.file_path or external_url: await self._handle_file_upload(...)`,
\* else `return page_id`
FileStep(u) ==
    IF u.msg.file = "none" THEN [u EXCEPT !.pc = "done"] ELSE [u EXCEPT !.pc = "file"]

\* the text is not appended
TextSkipped(u) == FileStep(u)

\* `if message.content: await self.client.append_text(page_id, message.content)`
TextStep(u) ==
    IF u.msg.content THEN Req([u EXCEPT !.pc = "text"], 1) ELSE FileStep(u)

\* the response of create_page
CreatePageDone(ok) ==
    /\ up.pc = "create_page"
    /\ up' = IF ok THEN TextStep([up EXCEPT !.page_created = TRUE])
             ELSE Failed(up, "page")
    /\ UNCHANGED bufferVars

\* the response of get_page; then update_page is requested
GetPageDone(ok) ==
    /\ up.pc = "get_page"
    /\ up' = IF ok THEN Req([up EXCEPT !.pc = "update_page"], 1) ELSE Failed(up, "page")
    /\ UNCHANGED bufferVars

\* the response of update_page
UpdatePageDone(ok) ==
    /\ up.pc = "update_page"
    /\ up' = IF ok THEN TextStep(up) ELSE Failed(up, "page")
    /\ UNCHANGED bufferVars

\* the response of append_text
AppendTextDone(ok) ==
    /\ up.pc = "text"
    /\ up' = IF ok THEN FileStep([up EXCEPT !.texts = @ + 1]) ELSE Failed(up, "text")
    /\ UNCHANGED bufferVars

\* no file is taken for Markdown
NeverMarkdown(f) == FALSE

\* `file_extension.lower() == 'md' or content_type == 'text/markdown'`
IsMarkdown(f) == f.extension = "md" \/ f.content_type = "text/markdown"

\* the checks a local file passes before create_file_upload: the path
\* exists, the content type is in the allow-list, the size is not 0
AcceptsAll(f, size) == "ok"

Validate(f, size) ==
    IF ~f.exists THEN "not_found"
    ELSE IF f.content_type \notin SupportedMimeTypes THEN "unsupported"
    ELSE IF size.val = 0 THEN "empty"
    ELSE "ok"

\* the request of create_file_upload
CreateFileUpload(u) ==
    Req([u EXCEPT !.pc = "create", !.creates = @ + 1,
                  !.mode = Mode(u.size),
                  !.number_of_parts = NumberOfParts(u.size)], 1)

\* _handle_file_upload up to its first await: an external URL goes to
\* create_file_upload; a local file must exist, a Markdown file is appended
\* as text instead (reading it as UTF-8 text may raise), any other file is
\* validated first
HandleFileUpload(readable) ==
    /\ up.pc = "file"
    /\ up' = IF up.external THEN CreateFileUpload(up)
             ELSE IF ~up.msg.exists THEN Failed(up, Validate(up.msg, up.size))
             ELSE IF IsMarkdown(up.msg)
                  THEN IF readable THEN Req([up EXCEPT !.pc = "markdown"], 1)
                       ELSE Failed(up, "markdown")
             ELSE IF Validate(up.msg, up.size) # "ok"
                  THEN Failed(up, Validate(up.msg, up.size))
             ELSE CreateFileUpload(up)
    /\ UNCHANGED bufferVars

\* the response of the append_text that carries a Markdown file's content
MarkdownDone(ok) ==
    /\ up.pc = "markdown"
    /\ up' = IF ok THEN [up EXCEPT !.pc = "done", !.texts = @ + 1]
             ELSE Failed(up, "markdown")
    /\ UNCHANGED bufferVars

\* asyncio.gather(*tasks): raises as soon as one part has raised, returns
\* when all parts have returned
GatherSettled(parts) ==
    IF \A k \in DOMAIN parts : parts[k] # "flying" THEN "returned" ELSE "waiting"

Gather(parts) ==
    IF \E k \in DOMAIN parts : parts[k] = "failed" THEN "raised"
    ELSE IF \A k \in DOMAIN parts : parts[k] = "ok" THEN "returned"
    ELSE "waiting"

\* _upload_multi_part_file: `part_size = (file_size + number_of_parts - 1) // number_of_parts`
PartSizeFloor(size, n) == size \div n

PartSizeOf(size, n) == (size + n - 1) \div n

\* _upload_multi_part_file: the bytes [start_byte, end_byte) of part k
PartRange(size, n, k) ==
    [start |-> (k - 1) * PartSizeOf(size, n),
     end |-> Min(k * PartSizeOf(size, n), size)]

\* append_file_block patches the page without waiting for the upload
NoPoll(u) == Req([u EXCEPT !.pc = "attach"], 1)

\* the first get_file_upload_status request of wait_for_file_upload
FirstPoll(u) == Req([u EXCEPT !.pc = "poll", !.attempt = 0, !.delay = InitialDelay], 1)

\* the response of create_file_upload: the transfer starts, all parts at once
\* in multi-part mode; an external URL has nothing to transfer
CreateFileUploadDone(ok) ==
    /\ up.pc = "create"
    /\ up' = IF ~ok THEN Failed(up, "create")
             ELSE IF up.external THEN FirstPoll(up)
             ELSE IF up.mode = "multi_part"
                  THEN Req([up EXCEPT !.pc = "parts",
                                  !.parts = [k \in 1..up.number_of_parts |-> "flying"],
                                  !.ranges = [k \in 1..up.number_of_parts |->
                                      PartRange(up.size.val, up.number_of_parts, k)]],
                           up.number_of_parts)
                  ELSE Req([up EXCEPT !.pc = "single"], 1)
    /\ UNCHANGED bufferVars

\* upload_file_part k returns or raises; when _upload_multi_part_file is
\* still in gather, gather may end: complete_multi_part_upload is requested
\* after it returned
UploadFilePartDone(k, ok) ==
    /\ k \in DOMAIN up.parts
    /\ up.parts[k] = "flying"
    /\ LET parts == [up.parts EXCEPT ![k] = IF ok THEN "ok" ELSE "failed"]
           u == [up EXCEPT !.parts = parts]
       IN  up' = IF up.pc # "parts" \/ Gather(parts) = "waiting" THEN u
                 ELSE IF Gather(parts) = "raised" THEN Failed(u, "part")
                 ELSE Req([u EXCEPT !.pc = "complete", !.completes = @ + 1], 1)
    /\ UNCHANGED bufferVars

\* the response of _upload_single_part_file's request
UploadSinglePartDone(ok) ==
    /\ up.pc = "single"
    /\ up' = IF ok THEN FirstPoll(up) ELSE Failed(up, "single")
    /\ UNCHANGED bufferVars

\* the response of complete_multi_part_upload; then append_file_block starts
\* with wait_for_file_upload
CompleteMultiPartUploadDone(ok) ==
    /\ up.pc = "complete"
    /\ up' = IF ok THEN FirstPoll(up) ELSE Failed(up, "complete")
    /\ UNCHANGED bufferVars

\* what a get_file_upload_status request can bring: a status, or an exception
Statuses == {"uploaded", "failed", "pending", "error"}

\* wait_for_file_upload, one response: 'uploaded' returns; 'pending' sleeps;
\* 'failed' raises inside the try, so it is handled like an exception of the
\* request: raise on the last attempt, sleep otherwise
PollDone(st) ==
    /\ up.pc = "poll"
    /\ LET u == [up EXCEPT !.polls = @ + 1, !.last = st]
       IN  up' = IF st = "uploaded" THEN Req([u EXCEPT !.pc = "attach"], 1)
                 ELSE IF st = "pending" THEN [u EXCEPT !.pc = "sleep"]
                 ELSE IF up.attempt = MaxRetries - 1 THEN Failed(u, "timeout")
                 ELSE [u EXCEPT !.pc = "sleep"]
    /\ UNCHANGED bufferVars

\* `delay *= 2`
NextDelayLinear(d) == d + InitialDelay

NextDelay(d) == 2 * d

\* after the last turn of the loop: `raise NotionFileUploadError("等待文件上传超时")`
ExhaustedProceeds(u) == [u EXCEPT !.pc = "attach"]

Exhausted(u) == Failed(u, "timeout")

\* `await asyncio.sleep(delay); delay *= 2` and the next turn of the loop
SleepDone ==
    /\ up.pc = "sleep"
    /\ LET u == [up EXCEPT !.slept = @ + up.delay, !.delay = NextDelay(@),
                           !.attempt = @ + 1]
       IN  up' = IF u.attempt = MaxRetries THEN Exhausted(u)
                 ELSE Req([u EXCEPT !.pc = "poll"], 1)
    /\ UNCHANGED bufferVars

\* the response of append_file_block's PATCH of the page's children
AppendFileBlockDone(ok) ==
    /\ up.pc = "attach"
    /\ up' = IF ok THEN [up EXCEPT !.pc = "done", !.blocks = @ + 1]
             ELSE Failed(up, "attach")
    /\ UNCHANGED bufferVars

MaxParts == (MaxSizeMiB * 1024 * 1024 + PartSize) \div PartSize

NextUpload ==
    \/ UploadMessage
    \/ \E ok \in BOOLEAN : CreatePageDone(ok)
    \/ \E ok \in BOOLEAN : GetPageDone(ok)
    \/ \E ok \in BOOLEAN : UpdatePageDone(ok)
    \/ \E ok \in BOOLEAN : AppendTextDone(ok)
    \/ \E readable \in BOOLEAN : HandleFileUpload(readable)
    \/ \E ok \in BOOLEAN : MarkdownDone(ok)
    \/ \E ok \in BOOLEAN : CreateFileUploadDone(ok)
    \/ \E k \in 1..MaxParts, ok \in BOOLEAN : UploadFilePartDone(k, ok)
    \/ \E ok \in BOOLEAN : UploadSinglePartDone(ok)
    \/ \E ok \in BOOLEAN : CompleteMultiPartUploadDone(ok)
    \/ \E st \in Statuses : PollDone(st)
    \/ SleepDone
    \/ \E ok \in BOOLEAN : AppendFileBlockDone(ok)

SpecUpload == InitUpload /\ [][NextUpload]_vars

\* ---- one request of the client: client.py ---------------------------------
\* the methods of NotionClient that send a request
ClientMethods ==
    {"create_page", "append_text", "create_file_upload", "upload_file_part",
     "complete_multi_part_upload", "append_file_block", "get_file_upload_status"}

\* the `method` argument each of them passes to _make_request
HttpMethod(cm) ==
    IF cm \in {"append_text", "append_file_block"} THEN "PATCH"
    ELSE IF cm = "get_file_upload_status" THEN "GET"
    ELSE "POST"

\* `'file_uploads' in url`: the file-upload endpoints, the upload_url that
\* create_file_upload returned included
InFileUploads(cm) ==
    cm \in {"create_file_upload", "upload_file_part", "complete_multi_part_upload",
            "get_file_upload_status"}

\* the status codes a response carries
StatusCodes == {200, 201, 204, 400, 401, 403, 404, 409, 429, 500, 502, 503}

\* what the session raises when no response arrives: a connection error is an
\* aiohttp.ClientError, asyncio's TimeoutError is not
TransportErrors == {"ClientConnectionError", "TimeoutError"}

IsClientError(type) == type \in {"ClientConnectionError", "ClientResponseError"}

\* _handle_response: raise_for_status raises for 400 and above, and the
\* handler turns it into a typed error with the status code and the body
HandleResponse(cm, status) ==
    IF status < 400 THEN NoError
    ELSE [type |-> IF InFileUploads(cm) THEN "NotionFileUploadError" ELSE "NotionPageError",
          message |-> "response", status_code |-> status, response_body |-> TRUE]

\* the except clauses of _make_request: whatever was raised inside the try
\* block, the typed error of _handle_response included, leaves as a new
\* NotionAPIError built from the message alone
Reraise(e) ==
    IF e = NoError THEN NoError
    ELSE [type |-> "NotionAPIError",
          message |-> IF IsClientError(e.type) THEN "request_failed" ELSE "unexpected",
          status_code |-> 0, response_body |-> FALSE]

\* upload_file_part wraps whatever _make_request raised; the other methods
\* let it pass
MethodRaises(cm, e) ==
    IF e = NoError THEN NoError
    ELSE IF cm = "upload_file_part"
    THEN [type |-> "NotionFileUploadError", message |-> "part_failed",
          status_code |-> 0, response_body |-> FALSE]
    ELSE e

Ended(r, status, e) ==
    [r EXCEPT !.pc = IF e = NoError THEN "returned" ELSE "raised",
              !.status = status, !.raised = e]

InitRequest ==
    /\ InitBuffer
    /\ \E cm \in ClientMethods :
           up = [NoUpload EXCEPT !.request = [NoRequest EXCEPT !.pc = "call", !.caller = cm]]

\* a client method calls _make_request, which sends the request
MakeRequest ==
    /\ up.request.pc = "call"
    /\ up' = IF HttpMethod(up.request.caller) \in {"POST", "PATCH", "GET"}
             THEN [up EXCEPT !.request.pc = "sent"]
             ELSE [up EXCEPT !.request =
                       Ended(@, 0, MethodRaises(@.caller,
                                       Reraise([NoError EXCEPT !.type = "ValueError"])))]
    /\ UNCHANGED bufferVars

\* a response arrives
ResponseArrives(status) ==
    /\ up.request.pc = "sent"
    /\ up' = [up EXCEPT !.request =
                 Ended(@, status, MethodRaises(@.caller,
                                      Reraise(HandleResponse(@.caller, status))))]
    /\ UNCHANGED bufferVars

\* no response arrives: the session raises
TransportFails(type) ==
    /\ up.request.pc = "sent"
    /\ up' = [up EXCEPT !.request =
                 Ended(@, 0, MethodRaises(@.caller,
                                 Reraise([NoError EXCEPT !.type = type])))]
    /\ UNCHANGED bufferVars

NextRequest ==
    \/ MakeRequest
    \/ \E status \in StatusCodes : ResponseArrives(status)
    \/ \E type \in TransportErrors : TransportFails(type)

SpecRequest == InitRequest /\ [][NextRequest]_vars

\* ---- the page properties in append mode: uploader.py 90-123 ----------------
\* api_upload runs outside the buffer's lock: requests of the API route that
\* arrive together run their upload_message calls on the same page
\* (API_PAGE_ID) interleaved at every await.
ApiCalls == 1..NumApiCalls

\* message.file_count and message.link_count
Counts == {[files |-> f, links |-> l] : f \in 0..MaxCount, l \in 0..MaxCount}

\* `current_file_count + message_file_count`, `current_link_count + message_link_count`
AddCounts(a, b) == [files |-> a.files + b.files, links |-> a.links + b.links]

\* a call that has not reached upload_message's append-only branch yet
NewApiCall(msg) == [pc |-> "start", msg |-> msg, read |-> NoCounts]

InitProps ==
    /\ InitBuffer
    /\ \E initial \in Counts, msgs \in [ApiCalls -> Counts] :
           up = [NoUpload EXCEPT !.props =
                    [page |-> initial, initial |-> initial,
                     calls |-> [c \in ApiCalls |-> NewApiCall(msgs[c])]]]

\* `page = await self.client.get_page(page_id)`: the request is sent
GetPage(c) ==
    /\ up.props.calls[c].pc = "start"
    /\ up' = [up EXCEPT !.props.calls[c].pc = "get_page"]
    /\ UNCHANGED bufferVars

\* get_page returns the page as it is now, or raises; the call computes the
\* new properties from what it read and sends update_page
GetPageReturns(c, ok) ==
    /\ up.props.calls[c].pc = "get_page"
    /\ up' = IF ok
             THEN [up EXCEPT !.props.calls[c].pc = "update_page",
                             !.props.calls[c].read = up.props.page]
             ELSE [up EXCEPT !.props.calls[c].pc = "failed"]
    /\ UNCHANGED bufferVars

\* update_page writes the numbers the call computed, or raises
UpdatePageReturns(c, ok) ==
    /\ up.props.calls[c].pc = "update_page"
    /\ up' = IF ok
             THEN [up EXCEPT !.props.calls[c].pc = "done",
                             !.props.page = AddCounts(up.props.calls[c].read,
                                                      up.props.calls[c].msg)]
             ELSE [up EXCEPT !.props.calls[c].pc = "failed"]
    /\ UNCHANGED bufferVars

NextProps ==
    \/ \E c \in ApiCalls : GetPage(c)
    \/ \E c \in ApiCalls, ok \in BOOLEAN : GetPageReturns(c, ok)
    \/ \E c \in ApiCalls, ok \in BOOLEAN : UpdatePageReturns(c, ok)

SpecProps == InitProps /\ [][NextProps]_vars

\* ---- claims about the buffer ---------------------------------------------
\* The URL a reader expects for the page call m created
ExpectedUrl(n) == <<"https://www.notion.so/", "p", ToString(n)>>

\* the blocks call m appended are the last blocks of the page with this id
LandedOn(id, m) ==
    \E n \in Msgs :
        /\ PageIdOf(n) = id
        /\ Len(pages[n]) > 0
        /\ pages[n][Len(pages[n])][1] = m

\* C1: a call that ends without error while the submitter has no open page
\* returns the URL of the page it has just created; a call that ends while
\* the submitter's page is open returns no URL, leaves page_id as it is, and
\* what it uploads goes to that page.
C1_FirstUrlThenAppend ==
    ev.what = "returned" =>
        /\ (ev.before.page_id = None /\ ev.res # "error") =>
              /\ ev.res = "url"
              /\ ev.url = ExpectedUrl(ev.id)
              /\ ev.created = PageIdOf(ev.id)
              /\ buffers[ev.user].page_id = ev.created
        /\ ev.before.page_id # None =>
              /\ ev.res \in {"none", "error"}
              /\ ev.created = None
              /\ buffers[ev.user].page_id = ev.before.page_id
              /\ ev.outcome # "download_fail" => ev.target = ev.before.page_id
              /\ ev.res = "none" => LandedOn(ev.before.page_id, ev.id)

C1_Witness ==
    /\ ev.what = "returned"
    /\ ev.res = "none"
    /\ \E n \in Msgs :
           /\ PageIdOf(n) = ev.before.page_id
           /\ Len(pages[n]) >= 2
           /\ pages[n][1][1] # ev.id

\* C2: when a task deletes an open entry (one with a page), it has sent the
\* completion summary first, however many units the entry accepted.
C2_TimerSendsSummary ==
    (ev.what = "closed" /\ ev.before.page_id # None) =>
        /\ ev.sent \in {"sent", "failed"}
        /\ ev.user \notin DOMAIN buffers

\* C3, as stated: a unit that arrives more than one window after the first
\* unit of the submitter's page was accepted starts a new page.
C3_NewPageAfterWindowFromFirst ==
    (ev.what = "returned" /\ ev.lateFirst) => ev.mode = "create"

\* C3, amended: a unit that arrives more than one window after the latest
\* accepted unit of the submitter, with no other unit of the submitter
\* waiting or in progress, starts a new page, and its URL is a new one.
C3_NewPageAfterIdleWindow ==
    (ev.what = "returned" /\ ev.lateLast) =>
        /\ ev.mode = "create"
        /\ ev.before.page_id = None
        /\ ev.res = "url" => ev.url = ExpectedUrl(ev.id)

C3_Witness ==
    /\ ev.what = "returned"
    /\ ev.lateLast
    /\ ev.res = "url"
    /\ ev.id >= 2

\* C4: every accepted unit leaves the entry with one task that sleeps the
\* full window; a task deletes an open entry only when a full window has
\* passed since the latest accepted unit; and once more than a window has
\* passed the task is closing the entry (it holds or awaits the lock).
C4_Debounce ==
    /\ (ev.what = "returned" /\ ev.res # "error") =>
          /\ buffers[ev.user].task = ev.id
          /\ timers[ev.id] = [pc |-> "sleep", rem |-> 30]
          /\ \A t \in Msgs \ {ev.id} :
                 calls[t].user = ev.user => timers[t].pc \notin {"sleep", "wait"}
    /\ (ev.what = "closed" /\ ev.before.page_id # None) => ev.full
    /\ \A u \in DOMAIN buffers :
          (buffers[u].page_id # None /\ age[u].last > 30) =>
              timers[buffers[u].task].pc \in {"wait", "reply"}

C4_Witness ==
    /\ ev.what = "closed"
    /\ ev.full
    /\ ev.before.file_count + ev.before.text_count >= 2

\* C5: when the first unit of a submitter fails, the buffer holds no entry
\* for the submitter once add_message has raised.
C5_FailedFirstLeavesNoEntry ==
    (ev.what = "returned" /\ ev.mode = "create" /\ ev.res = "error") =>
        ev.user \notin DOMAIN buffers

\* C6: an entry never sees two calls return a URL, an open entry has seen
\* exactly one, and a call that finds the page open creates no page.
C6_OneUrlPerEntry ==
    /\ \A u \in Users : hist[u].urls <= 1
    /\ \A u \in DOMAIN buffers : buffers[u].page_id # None => hist[u].urls = 1
    /\ (ev.what = "returned" /\ ev.mode = "append") =>
          (ev.created = None /\ ev.res # "url")

C6_Witness ==
    /\ ev.what = "returned"
    /\ ev.res = "url"
    /\ \E m \in Msgs : calls[m].user = ev.user /\ calls[m].pc = "wait"

C8_FailedAppendKeepsEntry ==
    /\ (ev.what = "returned" /\ ev.mode = "append" /\ ev.res = "error") =>
          /\ ev.user \in DOMAIN buffers
          /\ buffers[ev.user].page_id # None
          /\ buffers[ev.user].page_id = ev.before.page_id
          /\ buffers[ev.user].file_count = ev.before.file_count
          /\ buffers[ev.user].text_count = ev.before.text_count
          /\ timers[buffers[ev.user].task].pc \in {"sleep", "wait"}
    /\ (ev.what = "returned" /\ ev.res = "none" /\ hist[ev.user].failed) =>
          /\ ev.target = ev.before.page_id
          /\ LandedOn(ev.before.page_id, ev.id)

C8_Witness ==
    /\ ev.what = "returned"
    /\ ev.res = "none"
    /\ hist[ev.user].failed
    /\ LandedOn(ev.before.page_id, ev.id)

\* ---- claims about the file upload ----------------------------------------
\* C9: complete_multi_part_upload is requested at most once, only in
\* multi-part mode and only when each of the number_of_parts parts has
\* returned; a multi-part upload gets to the status polls only after it;
\* and once a part has raised it is never requested, the upload has failed,
\* no status was polled and no file block was appended.
C9_CompleteOnceAfterAllParts ==
    /\ up.completes <= 1
    /\ up.completes = 1 =>
          /\ up.mode = "multi_part"
          /\ Len(up.parts) = up.number_of_parts
          /\ \A k \in 1..up.number_of_parts : up.parts[k] = "ok"
    /\ (up.mode = "multi_part" /\ up.pc \in {"complete", "poll", "sleep", "attach", "done"}) =>
          up.completes = 1
    /\ (\E k \in DOMAIN up.parts : up.parts[k] = "failed") =>
          /\ up.completes = 0
          /\ up.pc = "failed"
          /\ up.polls = 0
          /\ up.blocks = 0

C9_Witness ==
    /\ up.pc = "done"
    /\ up.number_of_parts = 3
    /\ up.completes = 1
    /\ up.blocks = 1

\* n is the quotient a / b rounded up
IsCeil(n, a, b) == n * b >= a /\ (n - 1) * b < a

\* C10: once create_file_upload was called, a size that is absent or at most
\* 20 MiB has given single_part and no number of parts, a size above 20 MiB
\* has given multi_part with ceil(size / 10 MiB) parts, 3 for 25 MiB.
C10_ModeFromSize ==
    up.creates > 0 =>
        /\ (~up.size.some \/ up.size.val <= 20 * 1048576) =>
              (up.mode = "single_part" /\ up.number_of_parts = NoParts)
        /\ (up.size.some /\ up.size.val > 20 * 1048576) =>
              /\ up.mode = "multi_part"
              /\ IsCeil(up.number_of_parts, up.size.val, 10 * 1048576)
        /\ up.size = SizeOf(25 * 1048576) => up.number_of_parts = 3

C10_Witness ==
    /\ up.creates > 0
    /\ up.size = SizeOf(20 * 1048576)
    /\ up.mode = "single_part"
    /\ up.number_of_parts = NoParts

\* C11: the parts of a multi-part upload are numbered 1..n with
\* n = ceil(size / 10 MiB); each range is non-empty, the first starts at 0,
\* each next one starts where the one before ends, an earlier one ends
\* before a later one starts, and the last ends at the size of the file.
C11_PartsPartitionFile ==
    up.parts # <<>> =>
        LET n == Len(up.parts)
            r == up.ranges
        IN  /\ IsCeil(n, up.size.val, 10 * 1048576)
            /\ DOMAIN r = 1..n
            /\ \A k \in 1..n : 0 <= r[k].start /\ r[k].start < r[k].end /\ r[k].end <= up.size.val
            /\ r[1].start = 0
            /\ \A k \in 1..(n - 1) : r[k].end = r[k + 1].start
            /\ \A j, k \in 1..n : j < k => r[j].end <= r[k].start
            /\ r[n].end = up.size.val

C11_Witness ==
    /\ Len(up.parts) = 4
    /\ up.size.val = 30 * 1048576 + 1
    /\ up.ranges[4].end - up.ranges[4].start < up.ranges[1].end - up.ranges[1].start

\* C12: when the latest status poll returned 'failed', the upload has failed
\* with the upload-failed error: no sleep follows and no further poll.
C12_FailedStatusAborts ==
    up.last = "failed" => (up.pc = "failed" /\ up.error = "upload_failed")

\* C13: the status is polled at most 6 times; the sleep after the k-th poll,
\* k = 1..5, is 5 * 2^(k-1) seconds, so the k-th poll is made after
\* 5 * (2^(k-1) - 1) seconds of sleep; and after a poll that returned
\* 'uploaded', the sixth included, the file block is requested and the
\* upload fails only if that request does.
C13_BackoffSchedule ==
    /\ up.polls <= 6
    /\ (up.pc = "sleep" /\ up.polls < 6) => up.delay = 5 * 2^(up.polls - 1)
    /\ up.pc = "poll" => up.slept = 5 * (2^up.polls - 1)
    /\ up.last = "uploaded" =>
          \/ up.pc \in {"attach", "done"}
          \/ up.pc = "failed" /\ up.error = "attach"

C13_Witness ==
    /\ up.polls = 6
    /\ up.last = "uploaded"
    /\ up.slept = 5 + 10 + 20 + 40 + 80
    /\ up.pc = "done"

\* C14: when six polls were made and the sixth did not return 'uploaded'
\* (so none did), no file block is appended and the upload ends with the
\* timeout error, at once or after the sleep in progress.
C14_ExhaustedPollsTimeOut ==
    (up.polls = 6 /\ up.last # "uploaded") =>
        /\ up.blocks = 0
        /\ up.pc \in {"sleep", "failed"}
        /\ up.pc = "failed" => up.error = "timeout"
        /\ up.pc = "sleep" => up.attempt = 5

C14_Witness ==
    /\ up.polls = 6
    /\ up.last = "pending"
    /\ up.pc = "failed"
    /\ up.error = "timeout"

\* C15: for a local file that is missing, or that is not Markdown and has a
\* content type outside the allow-list or size 0, create_file_upload is
\* never called, nothing is transferred, polled or attached, the call does
\* not succeed; once _handle_file_upload has looked at the file the call has
\* failed with the validation error, and the page a create-mode call
\* created before is still there.
C15_InvalidFileRejected ==
    LET f == up.msg
        invalid == \/ ~f.exists
                   \/ /\ f.extension # "md"
                      /\ f.content_type # "text/markdown"
                      /\ \/ f.content_type \notin SupportedMimeTypes
                         \/ up.size.val = 0
    IN  (f.file = "local" /\ invalid) =>
            /\ up.creates = 0
            /\ up.parts = <<>>
            /\ up.polls = 0
            /\ up.blocks = 0
            /\ up.pc # "done"
            /\ up.pc \notin {"start", "create_page", "get_page", "update_page", "text", "file"} =>
                  /\ up.pc = "failed"
                  /\ up.error \in {"config", "page", "text", "not_found", "unsupported", "empty"}
                  /\ (up.error \in {"not_found", "unsupported", "empty"} /\ ~f.append_only) =>
                        up.page_created

C15_Witness ==
    /\ up.pc = "failed"
    /\ up.error = "unsupported"
    /\ up.msg.content_type = "application/x-msdownload"
    /\ up.page_created
    /\ up.texts = 1
    /\ up.blocks = 0

\* C16: an append-only call whose client has no parent page id fails with
\* the configuration error and has sent no request.
C16_AppendWithoutParentFails ==
    (up.msg.append_only /\ up.msg.parent = None /\ up.pc # "start") =>
        /\ up.pc = "failed"
        /\ up.error = "config"
        /\ up.net = 0
        /\ up.texts = 0
        /\ up.creates = 0

C16_Witness ==
    /\ up.msg.append_only
    /\ up.msg.parent = None
    /\ up.msg.content
    /\ up.msg.file = "local"
    /\ up.pc = "failed"
    /\ up.error = "config"

\* C17: a response with a status outside 2xx reaches the caller of the client
\* method as a typed error that carries that status code and the response
\* body; a transport failure reaches it as an error of another type.
C17_TypedRemoteErrors ==
    LET r == up.request
    IN  r.pc = "raised" =>
            IF r.status >= 400
            THEN /\ r.raised.type \in {"NotionFileUploadError", "NotionPageError"}
                 /\ r.raised.status_code = r.status
                 /\ r.raised.response_body
            ELSE r.raised.type \notin {"NotionFileUploadError", "NotionPageError"}

\* C18: when add_message has returned or raised for a unit that carries a
\* file, the temporary file downloaded for that unit no longer exists.
C18_TempFileRemoved ==
    ev.what = "returned" => ev.temp # "left"

\* C19: a summary that was sent carries the failure note exactly when
\* has_error is true as the entry closes, and that is exactly when the most
\* recent unit processed for the entry failed.
C19_NoteIffLastUnitFailed ==
    (ev.what = "closed" /\ ev.sent = "sent") =>
        /\ ev.note = ev.before.has_error
        /\ ev.before.has_error = ev.lastFailed

C21_SupersededTimerIsSilent ==
    /\ (ev.what = "returned" /\ ev.mode = "append" /\ ev.res # "error"
            /\ ev.before.task # 0) =>
          /\ timers[ev.before.task].pc = "cancelled"
          /\ lock # TimerProc(ev.before.task)
          /\ \A i \in 1..Len(waiters) : waiters[i] # TimerProc(ev.before.task)
    /\ \A t \in Msgs :
          timers[t].pc = "reply" =>
              /\ calls[t].user \in DOMAIN buffers
              /\ buffers[calls[t].user].task = t
    /\ ev.what = "closed" =>
          /\ ev.before.task = ev.id
          /\ ev.user \notin DOMAIN buffers
          /\ ev.before.page_id = None => ev.sent = "skipped"

C21_Witness ==
    /\ ev.what = "returned"
    /\ ev.mode = "append"
    /\ ev.res # "error"
    /\ ev.superseded = "wait"
    /\ timers[ev.before.task].pc = "cancelled"

\* C22: while the lock is free every entry of the buffer has exactly one
\* live task (sleeping or waiting for the lock), and no submitter ever has
\* two live tasks.
C22_OneLiveTimerPerEntry ==
    LET live(u) == {t \in Msgs : calls[t].user = u
                                 /\ timers[t].pc \in {"sleep", "wait", "reply"}}
    IN  /\ \A u \in Users : Cardinality(live(u)) <= 1
        /\ lock = NoProc => \A u \in DOMAIN buffers : Cardinality(live(u)) = 1

C24_HasErrorIsLastOutcome ==
    ev.what = "returned" =>
        /\ ev.user \in DOMAIN buffers
        /\ buffers[ev.user].has_error = (ev.res = "error")

\* C25: when an append has raised, the entry's bookkeeping for the unit is
\* done: has_error is set, the previous task is cancelled and the entry's
\* task is a new one that sleeps the full window.
C25_FailedAppendResetsTimer ==
    (ev.what = "returned" /\ ev.mode = "append" /\ ev.res = "error") =>
        /\ buffers[ev.user].has_error
        /\ buffers[ev.user].task = ev.id
        /\ timers[ev.id] = [pc |-> "sleep", rem |-> BufferTimeout]
        /\ timers[ev.before.task].pc = "cancelled"

\* C26: from every state in which a submitter has an entry and no unit of
\* that submitter is waiting or being processed, either a further unit of the
\* submitter arrives or the entry is eventually deleted.
C26_EntryEventuallyDeleted ==
    \A u \in Users :
        (u \in DOMAIN buffers /\ ~Pending(u)) ~> (u \notin DOMAIN buffers \/ Pending(u))

\* C27: an entry appears in the buffer only in a step of an add_message call
\* that holds the lock and is then inside its body.
C27_EntriesCreatedUnderLock ==
    [][\A u \in Users :
           (u \notin DOMAIN buffers /\ u \in DOMAIN buffers') =>
               \E m \in Msgs : /\ calls'[m].user = u
                               /\ calls'[m].pc = "body"
                               /\ lock' = MsgProc(m)]_vars

\* ---- claims about the order of the requests ---------------------------------
\* the requests of the file protocol, in the order they were made
FileLog == SelectSeq(up.log, LAMBDA op : op \in {"create", "parts", "single", "complete",
                                                  "poll", "attach"})

Rank(op) ==
    CASE op = "create" -> 1
      [] op \in {"parts", "single"} -> 2
      [] op = "complete" -> 3
      [] op = "poll" -> 4
      [] OTHER -> 5

Requested(log, op) == \E i \in 1..Len(log) : log[i] = op

Times(log, op) == Cardinality({i \in 1..Len(log) : log[i] = op})

\* C28: the requests for a file are made in the order create_file_upload,
\* the transfer of all parts, complete (multi-part only), the status polls,
\* the append of the file block; polls start only after the whole transfer (and
\* complete) succeeded, the block is appended only after a poll returned
\* 'uploaded', and complete is never requested in single-part mode.
C28_FileProtocolOrder ==
    LET f == FileLog
    IN  /\ f # <<>> => f[1] = "create"
        /\ \A i, j \in 1..Len(f) : i < j => Rank(f[i]) <= Rank(f[j])
        /\ Requested(f, "complete") =>
              /\ up.mode = "multi_part"
              /\ Requested(f, "parts")
              /\ \A k \in DOMAIN up.parts : up.parts[k] = "ok"
        /\ up.mode = "single_part" => ~Requested(f, "complete") /\ ~Requested(f, "parts")
        /\ (Requested(f, "poll") /\ ~up.external) =>
              IF up.mode = "multi_part" THEN Requested(f, "complete")
              ELSE Requested(f, "single")
        /\ Requested(f, "attach") => (Requested(f, "poll") /\ up.last = "uploaded")
        /\ up.blocks > 0 => Requested(f, "attach")

C28_Witness ==
    /\ up.pc = "done"
    /\ up.mode = "multi_part"
    /\ Len(up.parts) = 3
    /\ up.polls >= 2
    /\ up.blocks = 1

\* C29: within one upload_message call every operation other than the status
\* poll is requested at most once and every part is transferred once; the
\* call has failed as soon as one of them failed; only the poll is repeated,
\* at most 6 times.
C29_NoRetryButPoll ==
    /\ \A op \in {"create_page", "get_page", "update_page", "text", "markdown", "create",
                  "parts", "single", "complete", "attach"} : Times(up.log, op) <= 1
    /\ up.net = Len(up.log) + (IF Requested(up.log, "parts") THEN up.number_of_parts - 1 ELSE 0)
    /\ Times(up.log, "poll") = up.polls + (IF up.pc = "poll" THEN 1 ELSE 0)
    /\ up.polls <= MaxRetries
    /\ (\E k \in DOMAIN up.parts : up.parts[k] = "failed") => up.pc = "failed"
    /\ up.error # "none" => up.pc = "failed"
    /\ up.pc = "failed" => up.error # "none"

C29_Witness ==
    /\ up.pc = "failed"
    /\ up.error = "attach"
    /\ up.polls >= 3
    /\ Times(up.log, "attach") = 1

\* the errors of the file step
FileErrors ==
    {"markdown", "not_found", "unsupported", "empty", "create", "part", "single",
     "complete", "timeout", "attach"}

StepOf(op) ==
    IF op \in {"create_page", "get_page", "update_page"} THEN 1
    ELSE IF op = "text" THEN 2
    ELSE 3

\* C30: upload_message requests the page step first (create_page, or
\* get_page and update_page after the parent check), then the text append,
\* then the file's requests; when the file step has failed the call has
\* failed, the page it created is still created and the text it appended is
\* still appended: what was done is never undone.
C30_PageTextFileNoRollback ==
    /\ [](/\ up.log # <<>> => StepOf(up.log[1]) = 1
          /\ \A i, j \in 1..Len(up.log) : i < j => StepOf(up.log[i]) <= StepOf(up.log[j])
          /\ (up.pc = "failed" /\ up.error \in FileErrors) =>
                /\ ~up.msg.append_only => up.page_created
                /\ up.msg.content => (up.texts = 1 /\ Times(up.log, "text") = 1)
          /\ \A i \in 1..Len(up.log) :
                 up.log[i] \in {"create_page", "get_page", "update_page", "text", "markdown",
                                "create", "parts", "single", "complete", "poll", "attach"})
    /\ [][/\ up.page_created => up'.page_created
          /\ up'.texts >= up.texts
          /\ up'.blocks >= up.blocks]_vars

C30_Witness ==
    /\ up.pc = "failed"
    /\ up.error = "single"
    /\ ~up.msg.append_only
    /\ up.page_created
    /\ up.msg.content
    /\ up.texts = 1

\* the blocks of one kind on the page with this id
BlocksOn(id, kind) ==
    LET n == CHOOSE c \in Msgs : PageIdOf(c) = id
    IN  Cardinality({i \in 1..Len(pages[n]) : pages[n][i][2] = kind})

EntryOf(u) == IF u \in DOMAIN buffers THEN <<buffers[u]>> ELSE <<>>

TasksOf(u) == [t \in Msgs |-> IF calls[t].user = u THEN timers[t].pc ELSE "none"]

\* C32: a step in which a call of submitter A ends or a task of A deletes A's
\* entry changes no other submitter's entry, tasks or page; no step changes
\* the entries of two submitters; and an append made for A goes to the page
\* A's entry names, which is no other submitter's page.
C32_SubmittersIndependent ==
    /\ [](ev.what = "returned" /\ ev.mode = "append" /\ ev.outcome # "download_fail" =>
              /\ ev.target = ev.before.page_id
              /\ \A b \in DOMAIN buffers : b # ev.user => buffers[b].page_id # ev.target)
    /\ [][/\ \A a, b \in Users :
                 (a # b /\ EntryOf(a)' # EntryOf(a)) => EntryOf(b)' = EntryOf(b)
          /\ ev'.what \in {"returned", "closed"} =>
                 /\ \A b \in Users \ {ev'.user} :
                        /\ EntryOf(b)' = EntryOf(b)
                        /\ \A t \in Msgs : calls[t].user = b => timers'[t] = timers[t]
                 /\ \A n \in Msgs :
                        pages'[n] # pages[n] => calls[n].user = ev'.user]_vars

C32_Witness ==
    /\ ev.what = "returned"
    /\ ev.mode = "append"
    /\ ev.res = "none"
    /\ \E b \in DOMAIN buffers :
           /\ b # ev.user
           /\ buffers[b].page_id # None
           /\ buffers[b].page_id # ev.target

\* C33: for a local file that exists and has the extension md or the content
\* type text/markdown, upload_message never requests create_file_upload, a
\* part transfer, the completion, a status poll or the file block; it
\* requests at most one text append for the file, and exactly one when the
\* call has returned.
C33_MarkdownSkipsUpload ==
    (/\ up.msg.file = "local"
     /\ up.msg.exists
     /\ (up.msg.extension = "md" \/ up.msg.content_type = "text/markdown")) =>
        /\ \A op \in {"create", "parts", "single", "complete", "poll", "attach"} :
               ~Requested(up.log, op)
        /\ up.creates = 0 /\ up.completes = 0 /\ up.polls = 0 /\ up.blocks = 0
        /\ up.parts = <<>> /\ up.mode = "none"
        /\ Times(up.log, "markdown") <= 1
        /\ up.pc = "done" =>
               /\ Times(up.log, "markdown") = 1
               /\ up.texts = 1 + Times(up.log, "text")
        /\ up.pc \notin {"create", "parts", "single", "complete", "poll", "sleep", "attach"}

C33_Witness ==
    /\ up.pc = "done"
    /\ up.msg.file = "local"
    /\ up.msg.extension = "md"
    /\ up.msg.content_type = "application/pdf"
    /\ up.msg.content
    /\ up.size.val > 20
    /\ Times(up.log, "markdown") = 1
    /\ up.texts = 2

\* C34: when an add_message call has ended and its upload_message created a
\* page, the submitter's entry holds that page's id and the call returned
\* the page's URL.
C34_CreatedPageRecorded ==
    (ev.what = "returned" /\ ev.created # None) =>
        /\ ev.user \in DOMAIN buffers
        /\ buffers[ev.user].page_id = ev.created
        /\ ev.res = "url"
        /\ ev.url = PageUrl(ev.created)

\* C35: while a task is finalizing an entry (it holds the lock and awaits
\* the summary's reply_text) no add_message body runs; a body that appends
\* runs on an entry whose task has not started finalizing, a body that found
\* no page creates one; an append that has ended went to the page of such an
\* entry; and when an entry is closed no entry holds its page any more, so a
\* unit that waited through the finalization starts a new page.
C35_NoAppendAfterFinalization ==
    /\ \A t \in Msgs : timers[t].pc = "reply" =>
           /\ lock = TimerProc(t)
           /\ \A m \in Msgs : calls[m].pc # "body"
    /\ \A m \in Msgs : calls[m].pc = "body" =>
           LET e == buffers[calls[m].user]
           IN  IF calls[m].mode = "append"
               THEN /\ e.page_id # None
                    /\ e.task # 0
                    /\ timers[e.task].pc \in {"sleep", "wait"}
               ELSE e.page_id = None
    /\ (ev.what = "returned" /\ ev.mode = "append") =>
           /\ ev.outcome # "download_fail" => ev.target = ev.before.page_id
           /\ ev.before.page_id # None
           /\ timers[ev.before.task].pc \in {"sleep", "wait", "cancelled"}
    /\ ev.what = "closed" =>
           /\ timers[ev.id].pc = "done"
           /\ \A u \in DOMAIN buffers : buffers[u].page_id = None
                                            \/ buffers[u].page_id # ev.before.page_id
    /\ (ev.what = "returned" /\ ev.mode = "create" /\ ev.res = "url") =>
           /\ ev.url = PageUrl(PageIdOf(ev.id))
           /\ ev.before.page_id = None

\* a unit of a submitter whose earlier entry was finalized has started a new
\* page
C35_Witness ==
    /\ ev.what = "returned"
    /\ ev.mode = "create"
    /\ ev.res = "url"
    /\ \E t \in Msgs :
           /\ t < ev.id
           /\ timers[t].pc = "done"
           /\ calls[t].user = ev.user
           /\ PageUrl(PageIdOf(t)) # ev.url

\* C36: when upload_message has returned or raised, none of the part
\* transfers it started is still in flight.
C36_NoPartInFlightAtEnd ==
    up.pc \in {"done", "failed"} =>
        \A k \in DOMAIN up.parts : up.parts[k] # "flying"

\* C37: wait_for_file_upload sleeps only when another status poll follows:
\* it does not sleep after the sixth poll, and what it has slept for one file
\* is at most 5 + 10 + 20 + 40 + 80 = 155 seconds.
C37_SleepsOnlyBetweenPolls ==
    /\ up.pc = "sleep" => up.polls < MaxRetries
    /\ up.slept <= 155

\* the sum of one count over the messages of the calls that updated the page
RECURSIVE Added(_, _)
Added(cs, field) ==
    IF cs = {} THEN 0
    ELSE LET c == CHOOSE x \in cs : TRUE
         IN  (IF up.props.calls[c].pc = "done" THEN up.props.calls[c].msg[field] ELSE 0)
                 + Added(cs \ {c}, field)

\* C38: when every append-mode upload_message call on a page has ended, the
\* page's file count and link count are their initial values plus the counts
\* of the messages of the calls that updated the page.
C38_NoLostUpdate ==
    (\A c \in DOMAIN up.props.calls : up.props.calls[c].pc \in {"done", "failed"}) =>
        /\ up.props.page.files = up.props.initial.files + Added(DOMAIN up.props.calls, "files")
        /\ up.props.page.links = up.props.initial.links + Added(DOMAIN up.props.calls, "links")

\* C39: the lock is held only by an add_message call or a task that is
\* inside its `async with`: a call or task that has ended, failed or been
\* cancelled neither holds the lock nor waits for it, the holder is never
\* among the waiters, and nobody waits for a free lock; and when every
\* remote call returns, every add_message call that waits for the lock
\* eventually holds it and runs its body.
C39_LockReleasedNoDeadlock ==
    /\ [](/\ lock = NoProc => waiters = <<>>
          /\ \A i \in 1..Len(waiters) :
                 /\ waiters[i] # lock
                 /\ \A j \in 1..Len(waiters) : i # j => waiters[i] # waiters[j]
                 /\ waiters[i].k = "msg" => calls[waiters[i].id].pc = "wait"
                 /\ waiters[i].k = "timer" => timers[waiters[i].id].pc = "wait"
          /\ lock.k = "msg" => calls[lock.id].pc \in {"wait", "body"}
          /\ lock.k = "timer" => timers[lock.id].pc \in {"wait", "reply"}
          /\ \A m \in Msgs :
                 /\ calls[m].pc = "body" => lock = MsgProc(m)
                 /\ timers[m].pc = "reply" => lock = TimerProc(m)
          /\ ev.what = "returned" => lock # MsgProc(ev.id)
          /\ ev.what = "closed" => lock # TimerProc(ev.id))
    /\ \A m \in Msgs : (calls[m].pc = "wait") ~> (calls[m].pc = "body")

\* a call waits behind a task that is cancelled while it waits for the lock;
\* the call that cancels it fails or returns
C39_Witness ==
    /\ ev.what = "returned"
    /\ ev.mode = "append"
    /\ ev.superseded = "wait"
    /\ \E m \in Msgs : calls[m].pc = "wait" /\ lock = MsgProc(m)

====
